---- MODULE Spec2Model ----
(***************************************************************************)
(* Model of src/main.py: the Streamlit script main() of the research       *)
(* assistant.  Every user interaction reruns main(); a run that presses    *)
(* the start button with a non-empty query builds the agent, blocks in     *)
(* agent_executor.invoke and then either reconciles the returned payload   *)
(* into a ResearchResponse (display + download) or runs the except         *)
(* handler.  agent_executor.invoke is an external call: the model draws    *)
(* its result (a returned payload or a raised exception) from small sets.  *)
(***************************************************************************)
EXTENDS Integers, Sequences, FiniteSets, TLC

(* ------------------------------ bounds --------------------------------- *)
MaxTopicLen == 2
MaxSources == 2

(* ------------------------------ inputs --------------------------------- *)
Chars == {"a", " "}
Urls == {"u1", "u2"}
Queries == {"", "q1", "q2"}
InvokeErrors == {"ConnectionError", "ResourceExhausted"}

RECURSIVE SeqsUpTo(_, _)
SeqsUpTo(S, n) ==
    IF n = 0 THEN {<<>>}
    ELSE LET R == SeqsUpTo(S, n - 1)
         IN  R \cup {Append(s, x) : s \in {r \in R : Len(r) = n - 1}, x \in S}

(* A JSON value as it appears in the model's answer text. *)
StrVal(s) == [t |-> "str", val |-> s]
ListVal(l) == [t |-> "list", val |-> l]
NullVal == [t |-> "null", val |-> <<>>]

(* class ResearchResponse(BaseModel): four required fields *)
Fields == <<"topic", "summary", "sources", "tools_used">>
FieldType(k) == IF k \in {"topic", "summary"} THEN "str" ELSE "list"
NoResponse == [topic |-> <<>>, summary |-> <<>>, sources |-> <<>>, tools_used |-> <<>>]

TopicStrings == SeqsUpTo(Chars, MaxTopicLen)
SourceLists == SeqsUpTo(Urls, MaxSources)

(* Per key, the ways the answer text may carry it: absent ("none"), or one *)
(* value, well typed or not.                                               *)
Absent == [t |-> "none", val |-> <<>>]
TopicChoices == {Absent, NullVal, ListVal(<<"u1">>)} \cup {StrVal(s) : s \in TopicStrings}
SummaryChoices == {Absent, NullVal, StrVal(<<"a">>)}
SourcesChoices == {Absent, StrVal(<<"a">>)} \cup {ListVal(l) : l \in SourceLists}
ToolsChoices == {Absent, ListVal(<<>>), ListVal(<<"search">>)}
ExtraChoices == {Absent, StrVal(<<"a">>)}

Pair(k, v) == [k |-> k, v |-> v]
Opt(k, v) == IF v = Absent THEN <<>> ELSE <<Pair(k, v)>>
Reverse(s) == [i \in 1..Len(s) |-> s[Len(s) + 1 - i]]

(* The answer texts: the empty string, prose that is not JSON, and JSON    *)
(* objects written as their key/value pairs in either key order.           *)
EmptyText == [form |-> "empty", pairs |-> <<>>]
ProseText == [form |-> "prose", pairs |-> <<>>]
ObjectText(p) == [form |-> "object", pairs |-> p]
ObjectPairs ==
    {Opt("topic", a) \o Opt("summary", b) \o Opt("sources", c)
        \o Opt("tools_used", d) \o Opt("note", e) :
        a \in TopicChoices, b \in SummaryChoices, c \in SourcesChoices,
        d \in ToolsChoices, e \in ExtraChoices}
Texts ==
    {EmptyText, ProseText} \cup {ObjectText(p) : p \in ObjectPairs}
        \cup {ObjectText(Reverse(p)) : p \in ObjectPairs}

(* What raw_response["output"] may be: a str, a dict (with or without the  *)
(* "text" key), None, or a list.                                           *)
StrOutput(t) == [kind |-> "str", has_text |-> FALSE, text |-> t]
DictOutput(t) == [kind |-> "dict", has_text |-> TRUE, text |-> t]
DictNoText == [kind |-> "dict", has_text |-> FALSE, text |-> EmptyText]
NoneOutput == [kind |-> "none", has_text |-> FALSE, text |-> EmptyText]
ListOutput == [kind |-> "list", has_text |-> FALSE, text |-> EmptyText]
Outputs ==
    {StrOutput(t) : t \in Texts} \cup {DictOutput(t) : t \in Texts}
        \cup {DictNoText, NoneOutput, ListOutput}

(* The dict agent_executor.invoke returns; the "output" key may be missing. *)
Unbound == [bound |-> FALSE, has_output |-> FALSE, output |-> NoneOutput]
Returned(out) == [bound |-> TRUE, has_output |-> TRUE, output |-> out]
ReturnedNoOutput == [bound |-> TRUE, has_output |-> FALSE, output |-> NoneOutput]
RawResponses == {Returned(o) : o \in Outputs} \cup {ReturnedNoOutput}

(* --------------------------- pure functions ---------------------------- *)

(* json decoding of the answer text: only an object decodes; a repeated    *)
(* key keeps its last value.                                               *)
HasKey(pairs, k) == \E i \in 1..Len(pairs) : pairs[i].k = k
LastIndex(pairs, k) ==
    CHOOSE i \in 1..Len(pairs) :
        pairs[i].k = k /\ \A j \in 1..Len(pairs) : pairs[j].k = k => j <= i
Lookup(pairs, k) == pairs[LastIndex(pairs, k)].v

(* pydantic validation of one required field of ResearchResponse *)
FieldOk(pairs, k) == HasKey(pairs, k) /\ Lookup(pairs, k).t = FieldType(k)

Ok(r) == [ok |-> TRUE, exc |-> "", value |-> r]
Fail(e) == [ok |-> FALSE, exc |-> e, value |-> NoResponse]

(* faulty variant of parse: a missing or mistyped sources becomes [] *)
ParseDefaulting(text) ==
    IF text.form # "object" THEN Fail("OutputParserException")
    ELSE IF \A i \in {1, 2, 4} : FieldOk(text.pairs, Fields[i])
         THEN Ok([topic |-> Lookup(text.pairs, "topic").val,
                  summary |-> Lookup(text.pairs, "summary").val,
                  sources |-> IF FieldOk(text.pairs, "sources")
                              THEN Lookup(text.pairs, "sources").val ELSE <<>>,
                  tools_used |-> Lookup(text.pairs, "tools_used").val])
         ELSE Fail("OutputParserException")

(* parser.parse(text): PydanticOutputParser over ResearchResponse; every   *)
(* field is required and must have its declared type                      *)
Parse(text) ==
    IF text.form # "object" THEN Fail("OutputParserException")
    ELSE IF \A i \in 1..4 : FieldOk(text.pairs, Fields[i])
         THEN Ok([topic |-> Lookup(text.pairs, "topic").val,
                  summary |-> Lookup(text.pairs, "summary").val,
                  sources |-> Lookup(text.pairs, "sources").val,
                  tools_used |-> Lookup(text.pairs, "tools_used").val])
         ELSE Fail("OutputParserException")

(* raw_response.get("output") *)
GetOutput(raw) == IF raw.has_output THEN raw.output ELSE NoneOutput

(* faulty variant: the container is searched under a key it does not hold *)
ReconcileWrongKey(raw) ==
    LET output == GetOutput(raw)
    IN  IF output.kind = "str" THEN Parse(output.text)
        ELSE IF output.kind = "dict" THEN Parse(EmptyText)
        ELSE Fail("AttributeError")

(* faulty variant: an output without text yields an empty record *)
ReconcileLenient(raw) ==
    LET output == GetOutput(raw)
    IN  IF output.kind = "str" THEN Parse(output.text)
        ELSE IF output.kind = "dict" /\ output.has_text THEN Parse(output.text)
        ELSE Ok(NoResponse)

(* lines 88-92: the two-tier extraction and parse *)
Reconcile(raw) ==
    LET output == GetOutput(raw)
    IN  IF output.kind = "str" THEN Parse(output.text)
        ELSE IF output.kind = "dict"
             THEN Parse(IF output.has_text THEN output.text ELSE EmptyText)
             ELSE Fail("AttributeError")

(* faulty variant of replace: only the first space is replaced *)
RECURSIVE ReplaceFirst(_)
ReplaceFirst(s) ==
    IF s = <<>> THEN <<>>
    ELSE IF Head(s) = " " THEN <<"_">> \o Tail(s)
         ELSE <<Head(s)>> \o ReplaceFirst(Tail(s))

(* str.replace(' ', '_') *)
RECURSIVE ReplaceSpaces(_)
ReplaceSpaces(s) ==
    IF s = <<>> THEN <<>>
    ELSE <<IF Head(s) = " " THEN "_" ELSE Head(s)>> \o ReplaceSpaces(Tail(s))

FileNameFirstOnly(topic) == <<"research_">> \o ReplaceFirst(topic) \o <<".json">>

(* line 129: f"research_{topic.replace(' ', '_')}.json" *)
FileName(topic) == <<"research_">> \o ReplaceSpaces(topic) \o <<".json">>

(* lines 119-128: research_data and json.dumps of it *)
Dumps(r) ==
    << Pair("topic", StrVal(r.topic)), Pair("summary", StrVal(r.summary)),
       Pair("sources", ListVal(r.sources)), Pair("tools_used", ListVal(r.tools_used)) >>

(* setup_agent(): the executor over the three tools *)
NoAgent == [bound |-> FALSE, tools |-> <<>>]
SetupAgent == [bound |-> TRUE, tools |-> <<"search_tool", "save_tool", "wiki_tool">>]

(* faulty variant: the emptiness test is dropped *)
TruthyAlways(q) == TRUE

(* line 80: `if query:` *)
Truthy(q) == q # ""

(* ------------------------------- state --------------------------------- *)
VARIABLES
    pc,                  \* "idle": no run in progress; "invoking": blocked in agent_executor.invoke
    event,               \* what triggered the current/last run: "none", "load", "click"
    query,               \* content of the text area in the current/last run
    agent_executor,      \* local of main(): the executor built by setup_agent()
    invoke_input,        \* the dict passed to agent_executor.invoke, as key/value pairs
    invoke_exc,          \* the exception agent_executor.invoke raised, "" if none
    raw_response,        \* local of main()
    structured_response, \* local of main()
    st_warning,          \* st.warning shown
    st_success,          \* st.success shown
    st_results,          \* the results section: what is displayed
    st_error,            \* st.error message, "" if none
    st_raw,              \* the "Raw Response" expander
    download,            \* the download button
    uncaught,            \* exception that escaped main(), "" if none
    research_history,    \* st.session_state.research_history
    history_set,         \* 'research_history' in st.session_state
    metric,              \* the "Total Researches" metric
    recent               \* the recent-queries list is rendered

vars == <<pc, event, query, agent_executor, invoke_input, invoke_exc, raw_response,
          structured_response, st_warning, st_success, st_results, st_error, st_raw,
          download, uncaught, research_history, history_set, metric, recent>>

NoDownload == [present |-> FALSE, data |-> <<>>, file_name |-> <<>>]
NoResults == [shown |-> FALSE, value |-> NoResponse]
NoRaw == [shown |-> FALSE, payload |-> Unbound]
NoStructured == [bound |-> FALSE, value |-> NoResponse]
NoMetric == [shown |-> FALSE, value |-> 0]

Init ==
    /\ pc = "idle"
    /\ event = "none"
    /\ query = ""
    /\ agent_executor = NoAgent
    /\ invoke_input = <<>>
    /\ invoke_exc = ""
    /\ raw_response = Unbound
    /\ structured_response = NoStructured
    /\ st_warning = FALSE
    /\ st_success = FALSE
    /\ st_results = NoResults
    /\ st_error = ""
    /\ st_raw = NoRaw
    /\ download = NoDownload
    /\ uncaught = ""
    /\ research_history = <<>>
    /\ history_set = FALSE
    /\ metric = NoMetric
    /\ recent = FALSE

(* faulty variant: a finished research run logs its query *)
StatsAppending(h) ==
    LET h2 == IF pc = "invoking" THEN Append(h, query) ELSE h
    IN  /\ history_set' = TRUE
        /\ research_history' = h2
        /\ metric' = [shown |-> TRUE, value |-> Len(h2)]
        /\ recent' = (h2 # <<>>)

(* lines 139-153: the stats column, run at the end of main() *)
Stats(h) ==
    /\ history_set' = TRUE
    /\ research_history' = h
    /\ metric' = [shown |-> TRUE, value |-> Len(h)]
    /\ recent' = (h # <<>>)

(* main() aborted by an exception: the stats column is never reached *)
NoStats ==
    /\ UNCHANGED <<research_history, history_set>>
    /\ metric' = NoMetric
    /\ recent' = FALSE

(* a fresh run starts with a cleared page and fresh locals *)
FreshRun ==
    /\ agent_executor' = NoAgent
    /\ invoke_input' = <<>>
    /\ invoke_exc' = ""
    /\ raw_response' = Unbound
    /\ structured_response' = NoStructured
    /\ st_success' = FALSE
    /\ st_results' = NoResults
    /\ st_error' = ""
    /\ st_raw' = NoRaw
    /\ download' = NoDownload
    /\ uncaught' = ""

(* A rerun of main() in which the button is not pressed (page load, edit). *)
Rerun(q) ==
    /\ pc = "idle"
    /\ pc' = "idle"
    /\ event' = "load"
    /\ query' = q
    /\ FreshRun
    /\ st_warning' = FALSE
    /\ Stats(IF history_set THEN research_history ELSE <<>>)

(* lines 79-80, 136-137: button pressed, query empty *)
ClickEmpty(q) ==
    /\ pc = "idle"
    /\ history_set
    /\ ~Truthy(q)
    /\ pc' = "idle"
    /\ event' = "click"
    /\ query' = q
    /\ FreshRun
    /\ st_warning' = TRUE
    /\ Stats(IF history_set THEN research_history ELSE <<>>)

(* lines 79-85: button pressed, query non-empty: build the agent and call  *)
(* agent_executor.invoke({"query": query})                                 *)
StartResearch(q) ==
    /\ pc = "idle"
    /\ history_set
    /\ Truthy(q)
    /\ pc' = "invoking"
    /\ event' = "click"
    /\ query' = q
    /\ agent_executor' = SetupAgent
    /\ invoke_input' = << <<"query", q>> >>
    /\ invoke_exc' = ""
    /\ raw_response' = Unbound
    /\ structured_response' = NoStructured
    /\ st_warning' = FALSE
    /\ st_success' = FALSE
    /\ st_results' = NoResults
    /\ st_error' = ""
    /\ st_raw' = NoRaw
    /\ download' = NoDownload
    /\ uncaught' = ""
    /\ metric' = NoMetric
    /\ recent' = FALSE
    /\ UNCHANGED <<research_history, history_set>>

(* lines 133-135: except Exception as e: show the error, then write       *)
(* raw_response to the expander.  Reading raw_response when line 85 never  *)
(* assigned it raises UnboundLocalError, which escapes main().             *)
ExceptHandler(e) ==
    /\ structured_response' = NoStructured
    /\ st_success' = FALSE
    /\ st_results' = NoResults
    /\ download' = NoDownload
    /\ st_error' = e
    /\ IF raw_response'.bound
       THEN /\ st_raw' = [shown |-> TRUE, payload |-> raw_response']
            /\ uncaught' = ""
            /\ Stats(IF history_set THEN research_history ELSE <<>>)
       ELSE /\ st_raw' = NoRaw
            /\ uncaught' = "UnboundLocalError"
            /\ NoStats

(* lines 85-135: invoke returned raw; reconcile, then display or handle *)
InvokeReturns(raw) ==
    /\ pc = "invoking"
    /\ pc' = "idle"
    /\ raw_response' = raw
    /\ LET r == Reconcile(raw)
       IN  IF r.ok
           THEN /\ structured_response' = [bound |-> TRUE, value |-> r.value]
                /\ st_success' = TRUE
                /\ st_results' = [shown |-> TRUE, value |-> r.value]
                /\ download' = [present |-> TRUE, data |-> Dumps(r.value),
                                file_name |-> FileName(r.value.topic)]
                /\ st_error' = ""
                /\ st_raw' = NoRaw
                /\ uncaught' = ""
                /\ Stats(IF history_set THEN research_history ELSE <<>>)
           ELSE ExceptHandler(r.exc)
    /\ UNCHANGED <<event, query, agent_executor, invoke_input, invoke_exc, st_warning>>

(* lines 85, 133-135: invoke raised e before raw_response was assigned *)
InvokeRaises(e) ==
    /\ pc = "invoking"
    /\ pc' = "idle"
    /\ invoke_exc' = e
    /\ raw_response' = raw_response
    /\ ExceptHandler(e)
    /\ UNCHANGED <<event, query, agent_executor, invoke_input, st_warning>>

Next ==
    \/ \E q \in Queries : Rerun(q)
    \/ \E q \in Queries : ClickEmpty(q)
    \/ \E q \in Queries : StartResearch(q)
    \/ \E raw \in RawResponses : InvokeReturns(raw)
    \/ \E e \in InvokeErrors : InvokeRaises(e)

Spec == Init /\ [][Next]_vars

(* ----------------------------- properties ------------------------------ *)

TerminalOutput == GetOutput(raw_response)
RunFinished == pc = "idle" /\ raw_response.bound
NothingStructured ==
    /\ ~structured_response.bound
    /\ ~st_success
    /\ ~st_results.shown
    /\ ~download.present
LacksField(text) ==
    text.form = "object" /\ \E i \in 1..4 : ~HasKey(text.pairs, Fields[i])
CarriesText(o) == o.kind = "str" \/ (o.kind = "dict" /\ o.has_text)

(* C1: when agent_executor.invoke itself raises, the caller shows the      *)
(* error message and the raw payload, shows no structured result, and the  *)
(* error handler completes without raising a further error.               *)
C1_LoopFatalErrorShown ==
    invoke_exc # "" =>
        /\ st_error = invoke_exc
        /\ st_raw.shown
        /\ NothingStructured
        /\ uncaught = ""

(* C2: a terminal text that lacks a required field yields no               *)
(* ResearchResponse (nothing is defaulted), none of the result or download *)
(* steps run, and the error is shown with the raw terminal payload.        *)
C2_MissingFieldFails ==
    (RunFinished /\ CarriesText(TerminalOutput) /\ LacksField(TerminalOutput.text)) =>
        /\ NothingStructured
        /\ st_error = "OutputParserException"
        /\ st_raw = [shown |-> TRUE, payload |-> raw_response]
        /\ uncaught = ""

C2_Witness ==
    /\ RunFinished
    /\ TerminalOutput.kind = "str"
    /\ TerminalOutput.text.form = "object"
    /\ ~HasKey(TerminalOutput.text.pairs, "sources")
    /\ \A k \in {"topic", "summary", "tools_used"} : FieldOk(TerminalOutput.text.pairs, k)
    /\ st_raw.shown

(* C3: a run whose terminal output is a container holding text t under     *)
(* "text" ends with the same outcome (the same ResearchResponse, or the    *)
(* same failure) as reconciling the flat string t.                         *)
C3_NestedSameAsFlat ==
    (RunFinished /\ TerminalOutput.kind = "dict" /\ TerminalOutput.has_text) =>
        LET flat == Reconcile(Returned(StrOutput(TerminalOutput.text)))
        IN  /\ structured_response = [bound |-> flat.ok, value |-> flat.value]
            /\ st_error = flat.exc
            /\ st_results = [shown |-> flat.ok, value |-> flat.value]

C3_Witness ==
    /\ RunFinished
    /\ TerminalOutput.kind = "dict"
    /\ TerminalOutput.has_text
    /\ structured_response.bound
    /\ structured_response.value.sources = <<"u2", "u1">>

(* C4: a terminal output that is not a string and holds no "text" field    *)
(* (key absent, None, or a list) never yields a ResearchResponse: the run  *)
(* ends in the error display, with no default or empty record.             *)
C4_NoTextFieldFails ==
    (RunFinished /\ ~CarriesText(TerminalOutput)) =>
        /\ NothingStructured
        /\ st_error \in {"OutputParserException", "AttributeError"}
        /\ st_raw.shown

C4_Witness ==
    /\ RunFinished
    /\ raw_response = Returned(DictNoText)
    /\ st_error = "OutputParserException"

(* C8: after a successful reconcile the download carries exactly the four  *)
(* fields topic, summary, sources, tools_used, in values and list order    *)
(* equal to the ResearchResponse, and its file name is "research_" + the   *)
(* topic with every space replaced by "_" + ".json".                       *)
C8_DownloadMatchesResponse ==
    structured_response.bound =>
        LET r == structured_response.value
            d == download.data
            f == download.file_name
        IN  /\ download.present
            /\ Len(d) = 4
            /\ \A i \in 1..4 : d[i].k = Fields[i] /\ d[i].v.t = FieldType(Fields[i])
            /\ d[1].v.val = r.topic
            /\ d[2].v.val = r.summary
            /\ d[3].v.val = r.sources
            /\ d[4].v.val = r.tools_used
            /\ Len(f) = Len(r.topic) + 2
            /\ f[1] = "research_"
            /\ f[Len(f)] = ".json"
            /\ \A i \in 1..Len(r.topic) :
                  f[i + 1] = IF r.topic[i] = " " THEN "_" ELSE r.topic[i]

C8_Witness ==
    /\ structured_response.bound
    /\ structured_response.value.topic = <<" ", " ">>
    /\ download.file_name = <<"research_", "_", "_", ".json">>
    /\ structured_response.value.sources = <<"u2", "u1">>

(* C9: research_history is initialised empty and never appended to: after  *)
(* any sequence of runs its length is 0, the metric (when rendered) shows  *)
(* 0 and the recent-queries list is never rendered.                        *)
C9_HistoryStaysEmpty ==
    /\ Len(research_history) = 0
    /\ metric.shown => metric.value = 0
    /\ ~recent

C9_Witness ==
    /\ history_set
    /\ st_success
    /\ event = "click"
    /\ metric = [shown |-> TRUE, value |-> 0]

(* C10: a press of the start button with an empty query builds no agent    *)
(* and invokes nothing; it only shows the warning.  A press with a         *)
(* non-empty query builds the agent and passes only the query to invoke.   *)
C10_EmptyQueryOnlyWarns ==
    /\ (event = "click" /\ query = "") =>
          /\ st_warning
          /\ pc = "idle"
          /\ agent_executor = NoAgent
          /\ invoke_input = <<>>
          /\ ~raw_response.bound
          /\ NothingStructured
          /\ st_error = ""
          /\ ~st_raw.shown
          /\ uncaught = ""
    /\ (event = "click" /\ query # "") =>
          /\ ~st_warning
          /\ agent_executor = SetupAgent
          /\ invoke_input = << <<"query", query>> >>

C10_Witness ==
    /\ event = "click"
    /\ query = ""
    /\ st_warning
    /\ metric.shown

====
